---- MODULE Spec2Model ----
(***************************************************************************)
(* A model of algorithms/PPO.py: the rollout Buffer, the constructor's     *)
(* batch / mini-batch check, the train loop, _update_networks and          *)
(* _compute_advantages.                                                    *)
(*                                                                         *)
(* Tensors are modelled by their contiguous storage: a tensor of shape     *)
(* (max_len, num_envs, 1) is a function on 0 .. max_len*num_envs-1 and the *)
(* element [t][u] lives at offset t*num_envs + u.  Every per-unit feature  *)
(* vector (state, action, mask) is a single scalar cell.                   *)
(* Floating point numbers are fixed-point integers with Scale units per 1, *)
(* products rounded down.  The loss of a mini-batch is not computed: an    *)
(* optimizer step makes a new version of the parameters.  The summary      *)
(* writer and the episode bookkeeping of train are left out.               *)
(***************************************************************************)
EXTENDS Integers, Sequences, FiniteSets, TLC

VARIABLES
    config,     \* the config dict handed to PPO.__init__
    self,       \* the PPO object's hyper-parameter fields, or the error raised
    buffer,     \* the Buffer object
    op,         \* the last Buffer method called (Buffer specification)
    ret,        \* what that call returned or raised
    since,      \* history: successful pushes since construction or reset
    pc,         \* position of the train loop / of _update_networks
    loc,        \* train's locals: obs, masks, loop counter, max_steps
    params,     \* version of the actor and critic parameters (optimizer steps)
    upd,        \* _update_networks' locals
    hist        \* history: what the train loop has done so far

vars == <<config, self, buffer, op, ret, since, pc, loc, params, upd, hist>>

\* ------------------------------------------------------------------ bounds
MaxLen == 4          \* Buffer specification: capacities 0 .. MaxLen
MaxUnits == 2        \* Buffer specification: units 1 .. MaxUnits

None == "None"
NoValue == [none |-> TRUE]

\* ------------------------------------------------------------------ Buffer
FieldNames ==
    <<"states", "next_states", "dones", "actions", "rewards", "values",
      "log_probs", "action_masks">>

\* Offset of element [t][u] in the storage of a contiguous (max_len, num_envs, 1) tensor.
Offset(b, t, u) == t * b.num_envs + u

\* torch.empty((max_len, num_envs, 1)): storage whose content is whatever `fill` is.
Empty(max_len, num_envs, fill) == [k \in 0 .. max_len * num_envs - 1 |-> fill]

\* Buffer.__init__
Buffer(num_envs, max_len, fill) ==
    [ states       |-> Empty(max_len, num_envs, fill),
      next_states  |-> Empty(max_len, num_envs, fill),
      dones        |-> Empty(max_len, num_envs, fill),
      actions      |-> Empty(max_len, num_envs, fill),
      rewards      |-> Empty(max_len, num_envs, fill),
      values       |-> Empty(max_len, num_envs, fill),
      log_probs    |-> Empty(max_len, num_envs, fill),
      action_masks |-> Empty(max_len, num_envs, fill),
      num_envs     |-> num_envs,
      max_len      |-> max_len,
      i            |-> 0 ]

\* Buffer.is_full
is_full(b) == b.i = b.max_len

\* tensor[self.i] = row: the assignment of one time row of a field.
SetRow(b, stor, row) ==
    [k \in DOMAIN stor |->
        IF \E u \in 0 .. b.num_envs - 1 : k = Offset(b, b.i, u)
        THEN row[CHOOSE u \in 0 .. b.num_envs - 1 : k = Offset(b, b.i, u)]
        ELSE stor[k]]

\* The body of push after its assertion.
WriteTransition(b, tr) ==
    [b EXCEPT
        !.states       = SetRow(b, @, tr.states),
        !.next_states  = SetRow(b, @, tr.next_states),
        !.dones        = SetRow(b, @, tr.dones),
        !.actions      = SetRow(b, @, tr.actions),
        !.rewards      = SetRow(b, @, tr.rewards),
        !.values       = SetRow(b, @, tr.values),
        !.log_probs    = SetRow(b, @, tr.log_probs),
        !.action_masks = IF tr.has_mask THEN SetRow(b, @, tr.action_mask) ELSE @,
        !.i            = @ + 1]

\* push without its assertion.
push_unchecked(b, tr) == [raised |-> None, buf |-> WriteTransition(b, tr)]

\* Buffer.push: the assertion, then the writes and the cursor's increment.
push(b, tr) ==
    IF ~(b.i < b.max_len)
    THEN [raised |-> "Buffer is full!", buf |-> b]
    ELSE [raised |-> None, buf |-> WriteTransition(b, tr)]

\* reset that leaves the cursor where it is.
reset_keep(b) == b

\* Buffer.reset
reset(b) == [b EXCEPT !.i = 0]

\* A field of get_all's result: the time-major tensor, indexed [t][u].
TimeMajor(b, stor) ==
    [t \in 0 .. b.max_len - 1 |-> [u \in 0 .. b.num_envs - 1 |-> stor[Offset(b, t, u)]]]

\* Buffer.get_all
get_all(b) ==
    [ states       |-> TimeMajor(b, b.states),
      next_states  |-> TimeMajor(b, b.next_states),
      dones        |-> TimeMajor(b, b.dones),
      actions      |-> TimeMajor(b, b.actions),
      rewards      |-> TimeMajor(b, b.rewards),
      values       |-> TimeMajor(b, b.values),
      log_probs    |-> TimeMajor(b, b.log_probs),
      action_masks |-> TimeMajor(b, b.action_masks) ]

\* Flattening in unit-major order, as if the tensor had been transposed first.
FlatUnitMajor(b, stor) ==
    [k \in 0 .. b.max_len * b.num_envs - 1 |->
        stor[(k % b.max_len) * b.num_envs + (k \div b.max_len)]]

\* view((max_len * num_envs, 1)) / flatten() / flatten(end_dim=1) of a contiguous
\* tensor: the same storage under the shape (max_len * num_envs,).
Flat(b, stor) == [k \in 0 .. b.max_len * b.num_envs - 1 |-> stor[k]]

\* Buffer.get_all_flattened
get_all_flattened(b) ==
    [ states       |-> Flat(b, b.states),
      next_states  |-> Flat(b, b.next_states),
      dones        |-> Flat(b, b.dones),
      actions      |-> Flat(b, b.actions),
      rewards      |-> Flat(b, b.rewards),
      values       |-> Flat(b, b.values),
      log_probs    |-> Flat(b, b.log_probs),
      action_masks |-> Flat(b, b.action_masks) ]

\* ------------------------------------------------- Buffer specification
\* The transitions a caller pushes: every field and every unit gets its own value.
FieldCode(f) == CHOOSE j \in 1 .. 8 : FieldNames[j] = f
Payload(f, x, num_envs) == [u \in 0 .. num_envs - 1 |-> 100 * FieldCode(f) + 10 * x + u]
Transition(x, num_envs, has_mask) ==
    [ states      |-> Payload("states", x, num_envs),
      next_states |-> Payload("next_states", x, num_envs),
      dones       |-> Payload("dones", x, num_envs),
      actions     |-> Payload("actions", x, num_envs),
      rewards     |-> Payload("rewards", x, num_envs),
      values      |-> Payload("values", x, num_envs),
      log_probs   |-> Payload("log_probs", x, num_envs),
      action_mask |-> Payload("action_masks", x, num_envs),
      has_mask    |-> has_mask ]

\* The payloads pushed: payload 0 comes with an action mask, payload 1 without.
Payloads == {0, 1}

\* What uninitialised storage may hold.
Garbage == {-1, 0}

IdlePPO ==
    /\ config = NoValue /\ self = NoValue /\ pc = "buffer" /\ loc = NoValue
    /\ params = 0 /\ upd = NoValue /\ hist = NoValue

InitBuffer ==
    /\ \E max_len \in 0 .. MaxLen, num_envs \in 1 .. MaxUnits, g \in Garbage :
          buffer = Buffer(num_envs, max_len, g)
    /\ op = "__init__" /\ ret = None /\ since = 0
    /\ IdlePPO

PPOVars == <<config, self, pc, loc, params, upd, hist>>

Push ==
    /\ \E x \in Payloads :
          LET r == push(buffer, Transition(x, buffer.num_envs, x = 0))
          IN  /\ buffer' = r.buf
              /\ ret' = r.raised
              /\ since' = IF r.raised = None THEN since + 1 ELSE since
    /\ op' = "push"
    /\ UNCHANGED PPOVars

Reset ==
    /\ buffer' = reset(buffer)
    /\ op' = "reset" /\ ret' = None /\ since' = 0
    /\ UNCHANGED PPOVars

IsFull ==
    /\ op' = "is_full" /\ ret' = is_full(buffer)
    /\ UNCHANGED <<buffer, since>>
    /\ UNCHANGED PPOVars

GetAll ==
    /\ op' = "get_all" /\ ret' = get_all(buffer)
    /\ UNCHANGED <<buffer, since>>
    /\ UNCHANGED PPOVars

GetAllFlattened ==
    /\ op' = "get_all_flattened" /\ ret' = get_all_flattened(buffer)
    /\ UNCHANGED <<buffer, since>>
    /\ UNCHANGED PPOVars

NextBuffer == Push \/ Reset \/ IsFull \/ GetAll \/ GetAllFlattened

SpecBuffer == InitBuffer /\ [][NextBuffer]_vars

\* ------------------------------------------------------------ arithmetic
\* Fixed point: Scale units per 1.0.
Scale == 10 * 10 * 10
Mul(a, b) == (a * b) \div Scale

RECURSIVE SqrtSearch(_, _, _)
SqrtSearch(n, lo, hi) ==
    IF lo >= hi THEN lo
    ELSE LET mid == (lo + hi + 1) \div 2
         IN  IF mid * mid <= n THEN SqrtSearch(n, mid, hi) ELSE SqrtSearch(n, lo, mid - 1)
\* floor of the square root
ISqrt(n) == SqrtSearch(n, 0, 46340)

RECURSIVE SumTo(_, _)
\* f[0] + ... + f[n-1]
SumTo(f, n) == IF n = 0 THEN 0 ELSE f[n - 1] + SumTo(f, n - 1)

\* ------------------------------------------------------------ PPO.__init__
\* self.num_envs = max(config.get("num_envs", 1), 1)
NumEnvs(cfg) == IF cfg.num_envs > 1 THEN cfg.num_envs ELSE 1

\* assert self.horizon % self.minibatch_size == 0
MinibatchCheck(horizon, batch_size, minibatch_size) ==
    horizon % minibatch_size = 0

\* The hyper-parameter part of PPO.__init__: the fields it sets, or what it raises.
PPO_init(cfg) ==
    LET num_envs       == NumEnvs(cfg)
        batch_size     == cfg.horizon * num_envs * cfg.num_agents
        minibatch_size == IF cfg.has_minibatch_size THEN cfg.minibatch_size ELSE batch_size
    IN  IF ~MinibatchCheck(cfg.horizon, batch_size, minibatch_size)
        THEN [raised |-> "Horizon size must be a multiple of mini-batch size!"]
        ELSE [ raised         |-> None,
               num_envs       |-> num_envs,
               num_agents     |-> cfg.num_agents,
               env_uses_action_mask |-> cfg.env_uses_action_mask,
               gamma          |-> cfg.gamma,
               gae_lambda     |-> cfg.gae_lambda,
               horizon        |-> cfg.horizon,
               num_epochs     |-> cfg.num_epochs,
               batch_size     |-> batch_size,
               minibatch_size |-> minibatch_size,
               minibatch_nb_per_batch |-> batch_size \div minibatch_size ]

\* -------------------------------------------- the constructor's specification
MaxHorizon == 3      \* configured horizons 1 .. MaxHorizon
MaxEnvs == 3         \* configured num_envs 0 .. MaxEnvs
MaxAgents == 2       \* agents of the environment 1 .. MaxAgents
MaxMinibatch == 8    \* configured minibatch sizes 1 .. MaxMinibatch
DefaultGamma == 990
DefaultLambda == 950

Configs(horizons, envs, agents, minibatches, epochs) ==
    { [ horizon |-> h, num_envs |-> e, num_agents |-> a,
        has_minibatch_size |-> hm, minibatch_size |-> mb,
        num_epochs |-> ep, gamma |-> DefaultGamma, gae_lambda |-> DefaultLambda,
        env_uses_action_mask |-> um ] :
        h \in horizons, e \in envs, a \in agents, hm \in BOOLEAN,
        mb \in minibatches, ep \in epochs, um \in BOOLEAN }

IdleBuffer == buffer = NoValue /\ op = None /\ ret = None /\ since = 0

InitConstruct ==
    /\ config \in { c \in Configs(1 .. MaxHorizon, 0 .. MaxEnvs, 1 .. MaxAgents,
                                  1 .. MaxMinibatch, {1}) :
                      /\ c.env_uses_action_mask = FALSE
                      /\ c.has_minibatch_size \/ c.minibatch_size = 1 }
    /\ self = NoValue /\ pc = "new"
    /\ loc = NoValue /\ params = 0 /\ upd = NoValue /\ hist = NoValue
    /\ IdleBuffer

\* PPO(config)
Construct ==
    /\ pc = "new"
    /\ self' = PPO_init(config)
    /\ pc' = IF self'.raised = None THEN "constructed" ELSE "raised"
    /\ UNCHANGED <<config, buffer, op, ret, since, loc, params, upd, hist>>

NextConstruct == Construct

SpecInit == InitConstruct /\ [][NextConstruct]_vars

BatchSize(cfg) == cfg.horizon * NumEnvs(cfg) * cfg.num_agents
MinibatchSize(cfg) == IF cfg.has_minibatch_size THEN cfg.minibatch_size ELSE BatchSize(cfg)

\* C1: construction fails on the divisibility check exactly when
\* batch_size = horizon * num_envs * num_agents is no multiple of minibatch_size.
C1_RejectsIffNotDivisible ==
    pc \in {"constructed", "raised"} =>
        ((pc = "raised") <=> (BatchSize(config) % MinibatchSize(config) # 0))

\* --------------------------------------------------- actor, critic, env
\* The critic is an opaque collaborator: some function of its parameters and of
\* the observation.  This one tells parameter versions and observations apart.
Critic(p, s) == s.x * Scale + p.steps

\* The log-probability of action a under the actor with parameters p on
\* observation s (and mask mk), kept symbolic.
LogProb(p, s, mk, a) == [steps |-> p.steps, s |-> s, mask |-> mk, a |-> a]

MaxSeed == 1         \* outcomes 0 .. MaxSeed of one environment step and sample

Units(n) == 0 .. n - 1
\* What the vectorized environment returns at its clk-th step under outcome e.
EnvObs(e, clk, n) == [u \in Units(n) |-> [clk |-> clk, x |-> (e + u) % 2]]
EnvMasks(e, clk, n) == [u \in Units(n) |-> [clk |-> clk, m |-> (e + u + 1) % 2]]
EnvRewards(e, n) == [u \in Units(n) |-> ((e + u + 1) % 3) * Scale]
EnvTerminated(e, n) == [u \in Units(n) |-> (e + u) % 2 = 1]
EnvTruncated(e, n) == [u \in Units(n) |-> (e + u) % 3 = 2]
\* dist.sample()
SampleActions(e, n) == [u \in Units(n) |-> (((e + 1) \div 2) + u) % 2]

\* ------------------------------------------------- _compute_advantages
\* values.roll(-1, dims=0)
Roll(x, h) == [t \in 0 .. h - 1 |-> x[(t + 1) % h]]

\* One pass of the loop with the flag of the step itself instead of the carried one.
GaeStepOwnDone(t, last, nst, deltas, dones, gamma, gae_lambda) ==
    [ adv |-> [u \in DOMAIN last |->
                 deltas[t][u] + Mul(Mul(Mul(gamma, gae_lambda), last[u]), Scale - dones[t][u])],
      nst |-> dones[t] ]

\* One pass of the loop that forgets gae_lambda.
GaeStepNoLambda(t, last, nst, deltas, dones, gamma, gae_lambda) ==
    [ adv |-> [u \in DOMAIN last |->
                 deltas[t][u] + Mul(Mul(gamma, last[u]), Scale - nst[u])],
      nst |-> dones[t] ]

\* One pass of the loop over reversed(range(max_len)): advantages[t], which is
\* also the new last_advantage, and the new next_step_terminates.
GaeStep(t, last, nst, deltas, dones, gamma, gae_lambda) ==
    [ adv |-> [u \in DOMAIN last |->
                 deltas[t][u] + Mul(Mul(Mul(gamma, gae_lambda), last[u]), Scale - nst[u])],
      nst |-> dones[t] ]

RECURSIVE GaeLoop(_, _, _, _, _, _, _, _)
GaeLoop(t, advantages, last, nst, deltas, dones, gamma, gae_lambda) ==
    IF t < 0 THEN advantages
    ELSE LET s == GaeStep(t, last, nst, deltas, dones, gamma, gae_lambda)
         IN  GaeLoop(t - 1, [advantages EXCEPT ![t] = s.adv], s.adv, s.nst,
                     deltas, dones, gamma, gae_lambda)

\* deltas = rewards + gamma * next_values - values
Deltas(rewards, next_values, values, gamma) ==
    [t \in DOMAIN rewards |-> [u \in DOMAIN rewards[t] |->
        rewards[t][u] + Mul(gamma, next_values[t][u]) - values[t][u]]]

\* PPO._compute_advantages, with the critic's parameters p: the (max_len, num_envs)
\* tensor of advantages.
compute_advantages(b, gamma, gae_lambda, p) ==
    LET g           == get_all(b)
        h           == b.max_len
        U           == Units(b.num_envs)
        next_values == [Roll(g.values, h) EXCEPT
                           ![h - 1] = [u \in U |-> Critic(p, g.next_states[h - 1][u])]]
        deltas      == Deltas(g.rewards, next_values, g.values, gamma)
        zeros       == [t \in 0 .. h - 1 |-> [u \in U |-> 0]]
    IN  GaeLoop(h - 1, zeros, zeros[h - 1], g.dones[h - 1], deltas, g.dones,
                gamma, gae_lambda)

\* ------------------------------------------------- _update_networks
\* flatten(end_dim=1) of a fresh (max_len, num_envs, 1) tensor
FlattenEndDim1(x, h, n) == [k \in 0 .. h * n - 1 |-> x[k \div n][k % n]]

EpsInv == 100000000  \* 1 / 1e-8

\* (advantages - advantages.mean()) / (advantages.std() + 1e-8); std is the
\* unbiased one, which is nan for a single element.
Normalize(adv, n) ==
    IF n <= 1 THEN [nan |-> TRUE, v |-> [k \in DOMAIN adv |-> 0]]
    ELSE LET mean == SumTo(adv, n) \div n
             var  == SumTo([k \in DOMAIN adv |-> (adv[k] - mean) * (adv[k] - mean)], n)
                         \div (n - 1)
             std  == ISqrt(var)
         IN  [nan |-> FALSE,
              v   |-> [k \in DOMAIN adv |->
                         IF std = 0 THEN (adv[k] - mean) * EpsInv
                         ELSE ((adv[k] - mean) * Scale) \div std]]

\* returns = advantages + values, after advantages was rebound to its normalization
Returns(normalized, values) == [k \in DOMAIN values |-> normalized[k] + values[k]]

RECURSIVE PermSeqs(_)
PermSeqs(S) ==
    IF S = {} THEN {<<>>}
    ELSE UNION {{<<x>> \o q : q \in PermSeqs(S \ {x})} : x \in S}
\* What torch.randperm(n) may return: the index at position j is Randperm[j + 1].
Randperm(n) == PermSeqs(0 .. n - 1)

\* indices[start:end]
Slice(indices, start, end) ==
    SubSeq(indices, start + 1, IF end < Len(indices) THEN end ELSE Len(indices))

\* A mini-batch taken at start = m
minibatch_indices_unscaled(indices, m, minibatch_size) ==
    Slice(indices, m, m + minibatch_size)

\* start = m * minibatch_size; end = start + minibatch_size; indices[start:end]
minibatch_indices(indices, m, minibatch_size) ==
    Slice(indices, m * minibatch_size, m * minibatch_size + minibatch_size)

\* ------------------------------------------------- train: specification
MaxBatch == 4        \* trained configurations have batch_size <= MaxBatch
MaxEpochs == 2       \* num_epochs 0 .. MaxEpochs
MaxSteps == 6        \* train's max_steps is 0 or MaxSteps

UnitsOf(ppo) == ppo.num_envs * ppo.num_agents

\* A PPO object right after a construction that raised nothing.
InitTrained ==
    /\ config \in { c \in Configs(1 .. MaxHorizon, 1 .. MaxEnvs, 1 .. MaxAgents,
                                  1 .. MaxMinibatch, 0 .. MaxEpochs) :
                      /\ BatchSize(c) <= MaxBatch
                      /\ c.has_minibatch_size \/ c.minibatch_size = 1
                      /\ PPO_init(c).raised = None }
    /\ self = PPO_init(config)
    /\ pc = "constructed"
    /\ loc = NoValue
    /\ params = [steps |-> 0, finite |-> TRUE]
    /\ upd = NoValue
    /\ hist = [updates |-> 0, resets |-> 0, reset_n |-> 0, last_next |-> NoValue]
    /\ IdleBuffer

\* train, up to its loop: the buffer is allocated and the environments are reset.
TrainStart ==
    /\ pc = "constructed"
    /\ \E max_steps \in {0, MaxSteps}, e \in 0 .. MaxSeed, g \in Garbage :
          /\ buffer' = Buffer(UnitsOf(self), self.horizon, g)
          /\ loc' = [ obs       |-> EnvObs(e, 0, UnitsOf(self)),
                      masks     |-> IF self.env_uses_action_mask
                                    THEN EnvMasks(e, 0, UnitsOf(self)) ELSE NoValue,
                      n         |-> 0,
                      max_steps |-> max_steps ]
    /\ pc' = "loop"
    /\ UNCHANGED <<config, self, op, ret, since, params, upd, hist>>

\* The transition of a loop pass that stores the new mask beside the old state.
CollectedNewMask(e) ==
    LET n       == UnitsOf(self)
        actions == SampleActions(e, n)
    IN  [ states      |-> loc.obs,
          next_states |-> EnvObs(e, loc.n + 1, n),
          dones       |-> [u \in Units(n) |->
                             IF EnvTerminated(e, n)[u] \/ EnvTruncated(e, n)[u]
                             THEN Scale ELSE 0],
          actions     |-> actions,
          rewards     |-> EnvRewards(e, n),
          values      |-> [u \in Units(n) |-> Critic(params, loc.obs[u])],
          log_probs   |-> [u \in Units(n) |->
                             LogProb(params, loc.obs[u],
                                     IF self.env_uses_action_mask THEN loc.masks[u]
                                     ELSE NoValue,
                                     actions[u])],
          action_mask |-> EnvMasks(e, loc.n + 1, n),
          has_mask    |-> self.env_uses_action_mask ]

\* The transition one loop pass pushes under outcome e.
Collected(e) ==
    LET n       == UnitsOf(self)
        actions == SampleActions(e, n)
    IN  [ states      |-> loc.obs,
          next_states |-> EnvObs(e, loc.n + 1, n),
          dones       |-> [u \in Units(n) |->
                             IF EnvTerminated(e, n)[u] \/ EnvTruncated(e, n)[u]
                             THEN Scale ELSE 0],
          actions     |-> actions,
          rewards     |-> EnvRewards(e, n),
          values      |-> [u \in Units(n) |-> Critic(params, loc.obs[u])],
          log_probs   |-> [u \in Units(n) |->
                             LogProb(params, loc.obs[u],
                                     IF self.env_uses_action_mask THEN loc.masks[u]
                                     ELSE NoValue,
                                     actions[u])],
          action_mask |-> loc.masks,
          has_mask    |-> self.env_uses_action_mask ]

\* A loop pass that updates the networks at every step.
AfterPushAlways(b) == "update"

\* if buffer.is_full(): ...
AfterPush(b) == IF is_full(b) THEN "update" ELSE "loop"

\* One pass of the loop down to buffer.is_full(): the networks' outputs, the
\* sample, the environments' step, the push, obs = new_obs, masks = new_masks.
\* Parameters that are nan make the distribution's constructor raise.
Collect ==
    /\ pc = "loop" /\ loc.n < loc.max_steps
    /\ IF ~params.finite
       THEN /\ pc' = "raised" /\ ret' = "ValueError"
            /\ UNCHANGED <<buffer, loc>>
       ELSE \E e \in 0 .. MaxSeed :
              LET tr == Collected(e)
                  r  == push(buffer, tr)
              IN  IF r.raised # None
                  THEN /\ pc' = "raised" /\ ret' = r.raised
                       /\ UNCHANGED <<buffer, loc>>
                  ELSE /\ buffer' = r.buf
                       /\ loc' = [loc EXCEPT
                             !.obs   = tr.next_states,
                             !.masks = IF self.env_uses_action_mask
                                       THEN EnvMasks(e, loc.n + 1, UnitsOf(self))
                                       ELSE NoValue,
                             !.n     = @ + 1]
                       /\ pc' = AfterPush(r.buf)
                       /\ ret' = None
    /\ UNCHANGED <<config, self, op, since, params, upd, hist>>

\* The loop has made its max_steps passes.  (The tail of a pass, the reward of
\* the first unit summed up for the writer, touches nothing modelled here.)
LoopExit ==
    /\ pc = "loop" /\ loc.n = loc.max_steps
    /\ pc' = "done"
    /\ UNCHANGED <<config, self, buffer, op, ret, since, loc, params, upd, hist>>

\* _update_networks down to its loops: the flattened buffer, the advantages,
\* their normalization, the returns.
UpdateBegin ==
    /\ pc = "update"
    /\ LET flat == get_all_flattened(buffer)
           raw  == FlattenEndDim1(
                       compute_advantages(buffer, self.gamma, self.gae_lambda, params),
                       buffer.max_len, buffer.num_envs)
           norm == Normalize(raw, self.batch_size)
       IN  upd' = [ nan        |-> norm.nan,
                    advantages |-> norm.v,
                    returns    |-> Returns(norm.v, flat.values),
                    epoch      |-> 0,
                    m          |-> 0,
                    indices    |-> <<>>,
                    used       |-> <<>>,
                    steps      |-> 0 ]
    /\ pc' = IF self.num_epochs > 0 THEN "epoch" ELSE "reset"
    /\ hist' = [hist EXCEPT !.updates = @ + 1]
    /\ UNCHANGED <<config, self, buffer, op, ret, since, loc, params>>

\* An epoch begins: indices = torch.randperm(self.batch_size)
Epoch ==
    /\ pc = "epoch"
    /\ \E perm \in Randperm(self.batch_size) :
          upd' = [upd EXCEPT !.indices = perm, !.m = 0, !.used = <<>>]
    /\ pc' = "minibatch"
    /\ UNCHANGED <<config, self, buffer, op, ret, since, loc, params, hist>>

\* One mini-batch: its indices, the loss on them, one step of each optimizer.
\* A loss computed from nan advantages leaves nan parameters.
Minibatch ==
    /\ pc = "minibatch"
    /\ LET mi         == minibatch_indices(upd.indices, upd.m, self.minibatch_size)
           last       == upd.m + 1 = self.minibatch_nb_per_batch
           last_epoch == upd.epoch + 1 = self.num_epochs
       IN  /\ upd' = [upd EXCEPT
                 !.used  = @ \o mi,
                 !.steps = @ + 1,
                 !.m     = @ + 1,
                 !.epoch = IF last THEN @ + 1 ELSE @]
           /\ pc' = IF ~last THEN "minibatch" ELSE IF last_epoch THEN "reset" ELSE "epoch"
    /\ params' = [steps |-> params.steps + 1, finite |-> params.finite /\ ~upd.nan]
    /\ UNCHANGED <<config, self, buffer, op, ret, since, loc, hist>>

\* _update_networks returns (its locals are gone), then buffer.reset()
BufferReset ==
    /\ pc = "reset"
    /\ upd' = NoValue
    /\ buffer' = reset(buffer)
    /\ hist' = [hist EXCEPT
          !.resets    = @ + 1,
          !.reset_n   = loc.n,
          !.last_next = get_all(buffer).next_states[buffer.max_len - 1]]
    /\ pc' = "loop"
    /\ UNCHANGED <<config, self, op, ret, since, loc, params>>

Next == TrainStart \/ Collect \/ LoopExit \/ UpdateBegin \/ Epoch \/ Minibatch \/ BufferReset

Spec == InitTrained /\ [][Next]_vars

\* ------------------------------------------------- train: properties
InUpdate == pc \in {"update", "epoch", "minibatch", "reset"}
Rows == 0 .. buffer.max_len - 1
Cols == 0 .. buffer.num_envs - 1

\* C4: the update is invoked exactly when a push has filled the buffer, that is at
\* the steps horizon, 2 * horizon, ...; the reset follows it before the next
\* push; no push raises; the rows an update reads were all written since the
\* previous reset; after n steps there have been n \div horizon updates and
\* the cursor is n % horizon.
C4_TrainSchedule ==
    pc \in {"loop", "done", "raised", "update", "epoch", "minibatch", "reset"} =>
        /\ ~(pc = "raised" /\ ret = "Buffer is full!")
        /\ is_full(buffer) <=> InUpdate
        /\ pc \in {"loop", "done"} =>
              /\ hist.updates = loc.n \div self.horizon
              /\ hist.resets = hist.updates
              /\ hist.reset_n = self.horizon * hist.resets
              /\ buffer.i = loc.n % self.horizon
        /\ InUpdate =>
              /\ loc.n > 0 /\ loc.n % self.horizon = 0
              /\ hist.updates = loc.n \div self.horizon - (IF pc = "update" THEN 1 ELSE 0)
              /\ hist.resets = loc.n \div self.horizon - 1
              /\ \A t \in Rows, u \in Cols :
                    get_all(buffer).next_states[t][u].clk = hist.reset_n + t + 1

C4_Witness ==
    /\ pc = "done" /\ loc.n = MaxSteps /\ self.horizon = 2
    /\ hist.updates = MaxSteps \div 2 /\ buffer.i = MaxSteps % 2

IsPermutation(q, n) ==
    /\ Len(q) = n
    /\ {q[j] : j \in 1 .. Len(q)} = 0 .. n - 1

C10_OnPolicyRows ==
    /\ pc \in {"loop", "done", "update"} =>
          params.steps = hist.resets * self.num_epochs * self.minibatch_nb_per_batch
    /\ pc = "update" =>
          LET g == get_all(buffer)
          IN  \A t \in Rows, u \in Cols :
                /\ g.values[t][u] = Critic(params, g.states[t][u])
                /\ g.log_probs[t][u] =
                      LogProb(params, g.states[t][u],
                              IF self.env_uses_action_mask THEN g.action_masks[t][u]
                              ELSE NoValue,
                              g.actions[t][u])
                /\ self.env_uses_action_mask =>
                      g.action_masks[t][u].clk = g.states[t][u].clk
                /\ t + 1 \in Rows => g.states[t + 1][u] = g.next_states[t][u]
                /\ (t = 0 /\ hist.resets > 0) => g.states[t][u] = hist.last_next[u]

C10_Witness ==
    /\ pc = "update" /\ hist.resets > 0 /\ params.steps > 0
    /\ self.horizon >= 2 /\ self.env_uses_action_mask

\* ------------------------------------------ the estimator's specification
MaxGaeBatch == 3     \* full buffers of at most MaxGaeBatch transitions

\* gamma and gae_lambda, as <<gamma, gae_lambda>>
GaePairs == {<<DefaultGamma, DefaultLambda>>, <<DefaultGamma, 0>>, <<0, DefaultLambda>>, <<500, 1000>>}

\* The rows a full buffer may hold: row pattern q gives unit u the reward, the
\* value and the done flag of the bits of q + u.
PatReward(q, u) == ((q + u) % 2) * Scale
PatValue(q, u) == (((q + u) \div 2) % 2) * Scale
PatDone(q, u) == (((q + u) \div 4) % 2) * Scale
Patterns == 0 .. 7

FullBuffer(h, n, pat, boot) ==
    LET K == 0 .. h * n - 1
    IN  [ states       |-> [k \in K |-> [clk |-> k \div n, x |-> 0]],
          next_states  |-> [k \in K |-> [clk |-> (k \div n) + 1,
                                         x   |-> IF k \div n = h - 1 THEN boot ELSE 0]],
          dones        |-> [k \in K |-> PatDone(pat[k \div n], k % n)],
          actions      |-> [k \in K |-> 0],
          rewards      |-> [k \in K |-> PatReward(pat[k \div n], k % n)],
          values       |-> [k \in K |-> PatValue(pat[k \div n], k % n)],
          log_probs    |-> [k \in K |-> 0],
          action_masks |-> [k \in K |-> 0],
          num_envs     |-> n,
          max_len      |-> h,
          i            |-> h ]

\* A PPO object and a full buffer, as _update_networks and _compute_advantages
\* find them.
\* (beside the buffers within the bound: the buffer of four steps of reward 1,
\* value 0, no done, under gamma 0.99 and gae_lambda 0.95)
GaeConfig(h, n, gl) ==
    [ horizon |-> h, num_envs |-> n, num_agents |-> 1,
      has_minibatch_size |-> TRUE, minibatch_size |-> 1,
      num_epochs |-> 1, gamma |-> gl[1], gae_lambda |-> gl[2],
      env_uses_action_mask |-> FALSE ]

InitGAE ==
    /\ \/ \E h \in 1 .. MaxGaeBatch, n \in 1 .. MaxGaeBatch, gl \in GaePairs :
             /\ h * n <= MaxGaeBatch
             /\ config = GaeConfig(h, n, gl)
             /\ \E pat \in [0 .. h - 1 -> Patterns], boot \in {0, 1} :
                   buffer = FullBuffer(h, n, pat, boot)
       \/ /\ config = GaeConfig(4, 1, <<DefaultGamma, DefaultLambda>>)
          /\ buffer = FullBuffer(4, 1, [t \in 0 .. 3 |-> 1], 0)
    /\ self = PPO_init(config)
    /\ pc = "update"
    /\ loc = NoValue
    /\ params = [steps |-> 0, finite |-> TRUE]
    /\ upd = NoValue
    /\ hist = [updates |-> 0, resets |-> 0, reset_n |-> 0, last_next |-> NoValue]
    /\ op = None /\ ret = None /\ since = 0

\* A call of _compute_advantages(buffer, self.gamma, self.gae_lambda)
ComputeAdvantages ==
    /\ pc = "update" /\ op = None
    /\ op' = "_compute_advantages"
    /\ ret' = compute_advantages(buffer, self.gamma, self.gae_lambda, params)
    /\ UNCHANGED <<config, self, buffer, since, pc, loc, params, upd, hist>>

NextGAE == ComputeAdvantages \/ UpdateBegin

SpecGAE == InitGAE /\ [][NextGAE]_vars

\* ------------------------------------------------- the estimator: properties
\* The quantities of the recursion, read off the buffer by time step and unit.
LastRow == buffer.max_len - 1
NextValueAt(t, u) ==
    IF t < LastRow THEN get_all(buffer).values[t + 1][u]
    ELSE Critic(params, get_all(buffer).next_states[LastRow][u])
DoneNextAt(t, u) ==
    IF t < LastRow THEN get_all(buffer).dones[t + 1][u]
    ELSE get_all(buffer).dones[LastRow][u]
DeltaAt(t, u) ==
    get_all(buffer).rewards[t][u] + Mul(self.gamma, NextValueAt(t, u))
        - get_all(buffer).values[t][u]
RECURSIVE AdvantageAt(_, _)
AdvantageAt(t, u) ==
    IF t = buffer.max_len THEN 0
    ELSE DeltaAt(t, u)
           + Mul(Mul(Mul(self.gamma, self.gae_lambda), AdvantageAt(t + 1, u)),
                 Scale - DoneNextAt(t, u))

\* horizon 4, one unit, reward 1, zero values and bootstrap, no dones,
\* gamma 0.99, gae_lambda 0.95
Scenario ==
    /\ buffer.max_len = 4 /\ buffer.num_envs = 1
    /\ self.gamma = DefaultGamma /\ self.gae_lambda = DefaultLambda
    /\ \A t \in Rows :
          /\ get_all(buffer).rewards[t][0] = Scale
          /\ get_all(buffer).values[t][0] = 0
          /\ get_all(buffer).dones[t][0] = 0
    /\ Critic(params, get_all(buffer).next_states[3][0]) = 0

\* C5: over a full buffer _compute_advantages gives, for every unit and step,
\* advantage[t] = delta[t] + gamma * gae_lambda * advantage[t+1] * (1 - done_next[t])
\* with advantage[horizon] = 0, delta[t] = reward[t] + gamma * next_value[t] - value[t],
\* next_value the next row's value or, at the last row, the critic's value of the
\* last next state, and done_next the next row's flag or, at the last row, its own;
\* in the scenario advantage[3] = 1 and advantage[2] = 1 + 0.99 * 0.95 * 1.
C5_GaeRecursion ==
    op = "_compute_advantages" =>
        /\ \A t \in Rows, u \in Cols : ret[t][u] = AdvantageAt(t, u)
        /\ Scenario =>
              /\ ret[3][0] = Scale
              /\ ret[2][0] = Scale + Mul(Mul(Mul(DefaultGamma, DefaultLambda), Scale), Scale)

C5_Witness ==
    /\ op = "_compute_advantages" /\ Scenario
    /\ ret[3][0] = Scale /\ ret[2][0] = 1940

\* C6 as stated: the returns of _update_networks are, for every flattened
\* transition, the estimator's advantage plus the stored value (looked at where
\* the batch has the two transitions a standard deviation needs).
C6_ReturnsAreGaePlusValue ==
    (pc \in {"epoch", "reset"} /\ upd # NoValue /\ upd.steps = 0 /\ ~upd.nan) =>
        \A k \in DOMAIN upd.returns :
              upd.returns[k] =
                  FlattenEndDim1(
                      compute_advantages(buffer, self.gamma, self.gae_lambda, params),
                      buffer.max_len, buffer.num_envs)[k]
                  + get_all_flattened(buffer).values[k]

\* C9: with gae_lambda = 0 the advantage is the one-step residual delta[t], and
\* with gamma = 0 it is reward[t] - value[t], whatever the done flags are.
C9_Degenerate ==
    op = "_compute_advantages" =>
        \A t \in Rows, u \in Cols :
            /\ self.gae_lambda = 0 => ret[t][u] = DeltaAt(t, u)
            /\ self.gamma = 0 =>
                  ret[t][u] = get_all(buffer).rewards[t][u] - get_all(buffer).values[t][u]

C9_Witness ==
    /\ op = "_compute_advantages" /\ self.gae_lambda = 0 /\ self.gamma = DefaultGamma
    /\ buffer.max_len >= 3
    /\ get_all(buffer).dones[1][0] = 0 /\ get_all(buffer).dones[2][0] = Scale
    /\ ret[1][0] # 0 /\ ret[0][0] = DeltaAt(0, 0)

\* ------------------------------------------------- Buffer: properties
FieldSet == {FieldNames[j] : j \in 1 .. 8}

CursorInv ==
    /\ 0 <= buffer.i /\ buffer.i <= buffer.max_len
    /\ buffer.i = since
    /\ op = "is_full" => ret = (since = buffer.max_len)

PushAdvances ==
    (op' = "push" /\ ret' = None) => buffer'.i = buffer.i + 1

\* C2: the cursor stays in 0 .. horizon and counts the pushes since construction
\* or the last reset, a successful push increases it by exactly 1, and is_full()
\* answers true exactly when horizon pushes have been made since then.
C2_Cursor == [](pc = "buffer" => CursorInv) /\ [][pc = "buffer" => PushAdvances]_vars

C2_Witness ==
    /\ pc = "buffer" /\ op = "is_full" /\ ret = TRUE
    /\ buffer.max_len = MaxLen /\ since = MaxLen

\* C3: a push on a buffer whose cursor equals horizon raises "Buffer is full!"
\* and leaves the cursor and every stored field as they were.
C3_PushFull ==
    [][(pc = "buffer" /\ buffer.i = buffer.max_len /\ op' = "push")
          => (ret' = "Buffer is full!" /\ buffer' = buffer)]_vars

\* the 5th push into a buffer of horizon 4 has raised the error
C3_Witness ==
    /\ pc = "buffer" /\ op = "push" /\ ret = "Buffer is full!"
    /\ buffer.max_len = 4 /\ buffer.i = 4 /\ since = 4

\* C8: every field get_all_flattened returns has exactly horizon * num_envs
\* entries, and entry k is get_all's entry [k \div num_envs][k % num_envs].
C8_Flatten ==
    (pc = "buffer" /\ op = "get_all_flattened") =>
        \A f \in FieldSet :
            /\ DOMAIN ret[f] = 0 .. buffer.max_len * buffer.num_envs - 1
            /\ \A k \in DOMAIN ret[f] :
                  ret[f][k] = get_all(buffer)[f][k \div buffer.num_envs][k % buffer.num_envs]

C8_Witness ==
    /\ pc = "buffer" /\ op = "get_all_flattened"
    /\ buffer.max_len >= 2 /\ buffer.num_envs >= 2 /\ since = buffer.max_len
    /\ ret.states[buffer.num_envs + 1] = get_all(buffer).states[1][1]
    /\ ret.states[buffer.num_envs + 1] # ret.states[1]

====
